---- MODULE Spec2Model ----
(***************************************************************************)
(* etl_i2b2/eventlog.py in three parts.                                    *)
(*                                                                         *)
(* DebounceHandler: a bounded queue of log records filled by one producer  *)
(* thread (emit) and drained by flush, which runs on the producer thread   *)
(* (high-severity emit, stop, flush) and on the thread of every            *)
(* threading.Timer that fires. Thread 0 is the producer; thread t >= 1 is  *)
(* the t-th Timer created. Every action is one atomic step of the code:    *)
(* one operation on the queue.Queue (each takes the queue's mutex), one    *)
(* Timer.cancel, one Timer.start, or one target.handle call. Time is       *)
(* counted in quiet intervals: a Timer may fire once one tick has passed   *)
(* since it was started. target.handle returns under Spec and SpecBurst    *)
(* and may raise under SpecFail.                                           *)
(*                                                                         *)
(* EventLogger (SpecLog): one thread that enters and leaves step scopes    *)
(* and calls elapsed and eta, with the clock of MockIO. Times are seconds  *)
(* since midnight of 2000-01-01.                                           *)
(*                                                                         *)
(* TextFilter and TextHandler (SpecFilter): records sent through a logger  *)
(* to a TextHandler and to a DebounceHandler.                              *)
(***************************************************************************)
EXTENDS Integers, Sequences, FiniteSets, TLC

\* ---- bounds of the model ----
MaxCapacity == 2
MaxRecords == 3
MaxCalls == 3
\* step scopes entered, and calls of elapsed and eta, on one EventLogger
MaxSteps == 3
MaxQueries == 2
\* length of a message and of a skip string, number of skip strings, number
\* of records logged
MaxLen == 2

\* ---- program constants ----
INFO == 20
WARN == 30
ERROR == 40
flushLevel == WARN
interval == 1

Levels == {INFO, WARN}
Producer == 0
\* the burst scenario (SpecBurst) has room for one more call
BurstCalls == MaxCalls + 1
\* the constructor starts one Timer, every call at most one more
MaxTimers == BurstCalls + 1
TimerIds == 1..MaxTimers
Threads == 0..MaxTimers

VARIABLES
    capacity,     \* the capacity argument of __init__
    buffer,       \* self.buffer: the records queued, oldest first
    self_timer,   \* self._timer: 0 for None, else the id of a Timer
    nTimers,      \* how many Timer objects have been created
    thr,          \* per thread: pc and the record a flush holds (0: none)
    left,         \* per Timer: ticks left until its interval has passed
    call,         \* the producer's current or last call
    levelno,      \* levelno of every record emitted so far, by record id
    accepted,     \* history: records put into the buffer, in order
    evicted,      \* history: records emit removed from a full buffer
    handled,      \* history: the target.handle calls, in order
    nCalls,       \* how many calls the producer has made
    sinceEmit,    \* ticks since the last emit call, capped at interval
    hist          \* history of the run: see Init

dvars == <<capacity, buffer, self_timer, nTimers, thr, left, call,
           levelno, accepted, evicted, handled, nCalls, sinceEmit, hist>>

\* ---- EventLogger and MockIO ----
VARIABLES
    self_seq,     \* self._seq
    self_step,    \* self._step: the frames [ix, t], outermost first
    io_now,       \* MockIO._now
    io_delta,     \* MockIO._delta
    scopes,       \* the step scopes ("with" statements) open, outermost first
    exc,          \* the exception in flight on the thread, or "none"
    log,          \* the records handed to the underlying logger, in order
    ret,          \* the last call of elapsed or eta and its result
    exits,        \* history: the last step scope left: see LoggerInit
    assigned,     \* history: the sequence numbers given to steps, in order
    ops           \* history: the EventLogger calls made, in order

lvars == <<self_seq, self_step, io_now, io_delta, scopes, exc, log, ret,
           exits, assigned, ops>>

\* ---- TextFilter, TextHandler ----
VARIABLES
    skips,        \* TextFilter.skips
    stream,       \* what the TextHandler has written to its stream
    target_out,   \* what the target of the DebounceHandler has written
    wiring,       \* how the two handlers are set up: see FilterStart
    queued,       \* the records the DebounceHandler holds, oldest first
    last          \* the last record logged (levelno 0: none yet) and what
                  \* filter returned for it

fvars == <<skips, stream, target_out, wiring, queued, last>>

vars == <<dvars, lvars, fvars>>

\* ---- queue.Queue(maxsize) ----
maxsize == capacity

\* faulty variant: Queue() built without a maxsize, that is never full
QFullNever(q) == FALSE

QFull(q) == 0 < maxsize /\ maxsize <= Len(q)

\* faulty variant: a loop "while True:" in flush
QEmptyNever(q) == FALSE

QEmpty(q) == Len(q) = 0

\* ---- helpers ----
Range(s) == {s[i] : i \in 1..Len(s)}

FlushPcs == {"fl_check", "fl_get", "fl_handle"}

\* a call of the producer: again says that it repeats the call before it,
\* which returned; snap is the buffer right after the put of an emit that
\* goes on to flush; late says that the call begins after a Timer thread
\* has ended with an exception of target.handle
NewCall(op, r) ==
    [op |-> op, rec |-> r, outcome |-> "running", snap |-> <<>>,
     again |-> call.op = op /\ call.outcome = "returned",
     late |-> \E t \in TimerIds : thr[t].pc = "died"]

Done(c, how) == [c EXCEPT !.outcome = how]

\* Timer.cancel(): sets the finished event; a Timer that has already passed
\* its wait runs its function all the same.
Cancel(th, t) ==
    IF t # 0 /\ th[t].pc = "pending" THEN [th EXCEPT ![t].pc = "cancelled"]
    ELSE th

\* what a call other than start() and an emit of the burst does to hist
Broken(h) == [h EXCEPT !.burst = "broken", !.forwarders = {}]

\* a cancelled Timer waits no longer
Forget(lf, t) == IF t # 0 THEN [lf EXCEPT ![t] = 0] ELSE lf

\* start(): timer = Timer(self.interval, self.flush); self._timer = timer;
\* timer.start()
StartTimer(th) ==
    /\ nTimers' = nTimers + 1
    /\ self_timer' = nTimers + 1
    /\ thr' = [th EXCEPT ![nTimers + 1].pc = "pending"]
    /\ left' = [left EXCEPT ![nTimers + 1] = interval]

DebounceInit ==
    /\ capacity \in 1..MaxCapacity
    /\ buffer = <<>>
    /\ self_timer = 1
    /\ nTimers = 1
    /\ thr = [t \in Threads |->
                [pc |-> IF t = Producer THEN "idle"
                        ELSE IF t = 1 THEN "pending" ELSE "unborn",
                 hand |-> 0]]
    /\ left = [t \in TimerIds |-> IF t = 1 THEN interval ELSE 0]
    /\ call = [op |-> "init", rec |-> 0, outcome |-> "returned",
               snap |-> <<>>, again |-> FALSE, late |-> FALSE]
    /\ levelno = <<>>
    /\ accepted = <<>>
    /\ evicted = {}
    /\ handled = <<>>
    /\ nCalls = 0
    /\ sinceEmit = interval
    \* stopCalled: stop() has been called.
    \* forwarders: the threads that have called target.handle, as long as
    \*   burst is not "broken".
    \* burst: "clean" while the producer has only called start() and emit
    \*   with records below flushLevel, less than interval apart, and no
    \*   Timer has fired since the first emit; "fired" once a Timer has
    \*   fired after the last of these emits returned; "broken" otherwise.
    \* failed: the records for which target.handle has raised.
    /\ hist = [stopCalled |-> FALSE, forwarders |-> {}, burst |-> "clean",
               failed |-> {}]

\* seconds since midnight
HMS(h, m, s) == (h * 60 + m) * 60 + s

\* EventLogger.__init__ and MockIO.__init__ with its default now
LoggerInit ==
    /\ self_seq = 0
    /\ self_step = <<>>
    /\ io_now = HMS(12, 30, 0)
    /\ io_delta = 1
    /\ scopes = <<>>
    /\ exc = "none"
    /\ log = <<>>
    /\ ret = [op |-> "none", pct |-> 0, outcome |-> "none", start |-> 0,
              elapsed |-> 0, value |-> 0]
    \* ix: the sequence number of the scope; before, after: self._step when
    \* step was called and when the scope was left; entered: the body of
    \* the scope was run; raised: the exception that ended the body, or
    \* "none"; out: the exception that left the scope, or "none";
    \* checkpoint: the start of the scope's frame; now: the clock when the
    \* scope was left.
    /\ exits = [ix |-> 0, before |-> <<>>, after |-> <<>>,
                entered |-> FALSE, raised |-> "none", out |-> "none",
                checkpoint |-> 0, now |-> 0]
    /\ assigned = <<>>
    /\ ops = <<>>

\* no TextHandler
FilterInit ==
    /\ skips = <<>>
    /\ stream = <<>>
    /\ target_out = <<>>
    /\ wiring = "sibling"
    /\ queued = <<>>
    /\ last = [msg |-> <<>>, levelno |-> 0, rv |-> TRUE]

Init == DebounceInit /\ LoggerInit /\ FilterInit

\* ---- the producer's calls ----

\* d.start() called from outside
Start ==
    /\ thr[Producer].pc = "idle"
    /\ nCalls' = nCalls + 1
    /\ StartTimer(thr)
    /\ call' = Done(NewCall("start", 0), "returned")
    /\ UNCHANGED <<lvars, fvars,
                   capacity, buffer, levelno, accepted, evicted, handled,
                   sinceEmit, hist>>

\* emit: timer = self._timer; if timer: timer.cancel()
EmitCall(lv) ==
    /\ thr[Producer].pc = "idle"
    /\ nCalls' = nCalls + 1
    /\ levelno' = Append(levelno, lv)
    /\ thr' = [Cancel(thr, self_timer) EXCEPT ![Producer].pc = "emit_full"]
    /\ call' = NewCall("emit", Len(levelno) + 1)
    /\ sinceEmit' = 0
    /\ hist' = IF /\ hist.burst = "clean"
                  /\ lv < flushLevel
                  /\ levelno = <<>> \/ sinceEmit < interval
                  /\ \A t \in TimerIds : thr[t].pc \notin FlushPcs
               THEN hist ELSE Broken(hist)
    /\ left' = Forget(left, self_timer)
    /\ UNCHANGED <<lvars, fvars,
                   capacity, buffer, self_timer, nTimers, accepted,
                   evicted, handled>>


\* faulty variant: the test for a full buffer passes only beyond capacity
EmitFullLate ==
    /\ thr[Producer].pc = "emit_full"
    /\ thr' = [thr EXCEPT ![Producer].pc =
                 IF Len(buffer) > capacity THEN "emit_evict" ELSE "emit_put"]
    /\ UNCHANGED <<lvars, fvars,
                   capacity, buffer, self_timer, nTimers, left, call,
                   levelno, accepted, evicted, handled, nCalls, sinceEmit, hist>>

\* emit: if self.buffer.full():
EmitFull ==
    /\ thr[Producer].pc = "emit_full"
    /\ thr' = [thr EXCEPT ![Producer].pc =
                 IF QFull(buffer) THEN "emit_evict" ELSE "emit_put"]
    /\ UNCHANGED <<lvars, fvars,
                   capacity, buffer, self_timer, nTimers, left, call,
                   levelno, accepted, evicted, handled, nCalls, sinceEmit, hist>>

\* emit: self.buffer.get(block=False); queue.Empty is not caught
EmitEvict ==
    /\ thr[Producer].pc = "emit_evict"
    /\ IF QEmpty(buffer)
       THEN /\ thr' = [thr EXCEPT ![Producer].pc = "idle"]
            /\ call' = Done(call, "Empty")
            /\ UNCHANGED <<buffer, evicted>>
       ELSE /\ thr' = [thr EXCEPT ![Producer].pc = "emit_put"]
            /\ buffer' = Tail(buffer)
            /\ evicted' = evicted \cup {Head(buffer)}
            /\ UNCHANGED call
    /\ UNCHANGED <<lvars, fvars,
                   capacity, self_timer, nTimers, left, levelno,
                   accepted, handled, nCalls, sinceEmit, hist>>

\* emit: self.buffer.put(record), which waits while the queue is full;
\* then the choice between flush() and start()
EmitPut ==
    /\ thr[Producer].pc = "emit_put"
    /\ ~QFull(buffer)
    /\ buffer' = Append(buffer, call.rec)
    /\ accepted' = Append(accepted, call.rec)
    /\ call' = IF levelno[call.rec] >= flushLevel
               THEN [call EXCEPT !.snap = Append(buffer, call.rec)]
               ELSE call
    /\ thr' = [thr EXCEPT ![Producer].pc =
                 IF levelno[call.rec] >= flushLevel THEN "fl_check"
                 ELSE "emit_start"]
    /\ UNCHANGED <<lvars, fvars,
                   capacity, self_timer, nTimers, left, levelno,
                   evicted, handled, nCalls, sinceEmit, hist>>

\* faulty variant: an emit that returns without self.start()
EmitNoStart ==
    /\ thr[Producer].pc = "emit_start"
    /\ thr' = [thr EXCEPT ![Producer].pc = "idle"]
    /\ call' = Done(call, "returned")
    /\ UNCHANGED <<lvars, fvars,
                   capacity, buffer, self_timer, nTimers, left,
                   levelno, accepted, evicted, handled, nCalls, sinceEmit,
                   hist>>

\* emit: else: self.start()
EmitStart ==
    /\ thr[Producer].pc = "emit_start"
    /\ StartTimer([thr EXCEPT ![Producer].pc = "idle"])
    /\ call' = Done(call, "returned")
    /\ UNCHANGED <<lvars, fvars,
                   capacity, buffer, levelno, accepted, evicted,
                   handled, nCalls, sinceEmit, hist>>

\* faulty variant: stop that cancels the Timer and returns without the flush
StopCallNoFlush ==
    /\ thr[Producer].pc = "idle"
    /\ nCalls' = nCalls + 1
    /\ thr' = Cancel(thr, self_timer)
    /\ self_timer' = 0
    /\ call' = Done(NewCall("stop", 0), "returned")
    /\ hist' = Broken([hist EXCEPT !.stopCalled = TRUE])
    /\ left' = Forget(left, self_timer)
    /\ UNCHANGED <<lvars, fvars,
                   capacity, buffer, nTimers, levelno, accepted,
                   evicted, handled, sinceEmit>>

\* stop: timer = self._timer; if timer: timer.cancel(); self._timer = None;
\* then self.flush()
StopCall ==
    /\ thr[Producer].pc = "idle"
    /\ nCalls' = nCalls + 1
    /\ thr' = [Cancel(thr, self_timer) EXCEPT ![Producer].pc = "fl_check"]
    /\ self_timer' = 0
    /\ call' = NewCall("stop", 0)
    /\ hist' = Broken([hist EXCEPT !.stopCalled = TRUE])
    /\ left' = Forget(left, self_timer)
    /\ UNCHANGED <<lvars, fvars,
                   capacity, buffer, nTimers, levelno, accepted,
                   evicted, handled, sinceEmit>>

\* d.flush() called from outside
FlushCall ==
    /\ thr[Producer].pc = "idle"
    /\ nCalls' = nCalls + 1
    /\ thr' = [thr EXCEPT ![Producer].pc = "fl_check"]
    /\ call' = NewCall("flush", 0)
    /\ hist' = Broken(hist)
    /\ UNCHANGED <<lvars, fvars,
                   capacity, buffer, self_timer, nTimers, left, levelno,
                   accepted, evicted, handled, sinceEmit>>

\* ---- flush, on the producer thread or on a Timer thread ----

\* the thread returns from flush: the producer's call ends, a Timer thread
\* ends
Leave(t) ==
    /\ thr' = [thr EXCEPT ![t].pc = IF t = Producer THEN "idle" ELSE "done"]
    /\ call' = IF t = Producer THEN Done(call, "returned") ELSE call

\* flush: while not self.buffer.empty():
FlushCheck(t) ==
    /\ thr[t].pc = "fl_check"
    /\ IF QEmpty(buffer)
       THEN Leave(t)
       ELSE /\ thr' = [thr EXCEPT ![t].pc = "fl_get"]
            /\ UNCHANGED call
    /\ UNCHANGED <<lvars, fvars,
                   capacity, buffer, self_timer, nTimers, left, levelno,
                   accepted, evicted, handled, nCalls, sinceEmit, hist>>


\* faulty variant: a flush that reads the head of the buffer and leaves it
\* there
FlushGetPeek(t) ==
    /\ thr[t].pc = "fl_get"
    /\ ~QEmpty(buffer)
    /\ thr' = [thr EXCEPT ![t].pc = "fl_handle", ![t].hand = Head(buffer)]
    /\ UNCHANGED <<lvars, fvars,
                   capacity, buffer, self_timer, nTimers, left, call,
                   levelno, accepted, evicted, handled, nCalls, sinceEmit, hist>>

\* flush: record = self.buffer.get(), which waits while the queue is empty
FlushGet(t) ==
    /\ thr[t].pc = "fl_get"
    /\ ~QEmpty(buffer)
    /\ thr' = [thr EXCEPT ![t].pc = "fl_handle", ![t].hand = Head(buffer)]
    /\ buffer' = Tail(buffer)
    /\ UNCHANGED <<lvars, fvars,
                   capacity, self_timer, nTimers, left, call, levelno,
                   accepted, evicted, handled, nCalls, sinceEmit, hist>>

\* flush: self.target.handle(record) returns
FlushHandle(t) ==
    /\ thr[t].pc = "fl_handle"
    /\ handled' = Append(handled, thr[t].hand)
    /\ hist' = IF hist.burst = "broken" THEN hist
               ELSE [hist EXCEPT !.forwarders = @ \cup {t}]
    /\ thr' = [thr EXCEPT ![t].pc = "fl_check", ![t].hand = 0]
    /\ UNCHANGED <<lvars, fvars,
                   capacity, buffer, self_timer, nTimers, left, call,
                   levelno, accepted, evicted, nCalls, sinceEmit>>

\* flush: self.target.handle(record) raises. flush catches Empty only, so
\* the exception leaves flush: on the producer thread it ends the call
\* (emit, stop or flush) that runs the flush; on a Timer thread it leaves
\* Timer.run and ends the thread.
FlushHandleFail(t) ==
    /\ thr[t].pc = "fl_handle"
    /\ hist' = [hist EXCEPT !.failed = @ \cup {thr[t].hand}]
    /\ thr' = [thr EXCEPT ![t].pc = IF t = Producer THEN "idle" ELSE "died",
                          ![t].hand = 0]
    /\ call' = IF t = Producer THEN Done(call, "HandleError") ELSE call
    /\ UNCHANGED <<lvars, fvars,
                   capacity, buffer, self_timer, nTimers, left, levelno,
                   accepted, evicted, handled, nCalls, sinceEmit>>

\* ---- Timer threads and time ----

\* Timer.run: the wait is over and the finished event is not set:
\* self.function() is called
Fire(t) ==
    /\ thr[t].pc = "pending"
    /\ left[t] = 0
    /\ thr' = [thr EXCEPT ![t].pc = "fl_check"]
    /\ hist' = IF hist.burst = "clean" /\ levelno = <<>> THEN hist
               ELSE IF hist.burst = "clean" /\ thr[Producer].pc = "idle"
                    THEN [hist EXCEPT !.burst = "fired"]
               ELSE IF hist.burst = "fired" THEN hist
               ELSE Broken(hist)
    /\ UNCHANGED <<lvars, fvars,
                   capacity, buffer, self_timer, nTimers, left, call,
                   levelno, accepted, evicted, handled, nCalls, sinceEmit>>

Waiting(t) == thr[t].pc = "pending" /\ left[t] > 0

Tick ==
    /\ sinceEmit < interval \/ \E t \in TimerIds : Waiting(t)
    /\ left' = [t \in TimerIds |-> IF Waiting(t) THEN left[t] - 1 ELSE left[t]]
    /\ sinceEmit' = IF sinceEmit < interval THEN sinceEmit + 1 ELSE sinceEmit
    /\ UNCHANGED <<lvars, fvars,
                   capacity, buffer, self_timer, nTimers, thr, call,
                   levelno, accepted, evicted, handled, nCalls, hist>>

\* the steps inside a call, of the Timer threads and of time
Step ==
    \/ EmitFull
    \/ EmitEvict
    \/ EmitPut
    \/ EmitStart
    \/ \E t \in Threads : FlushCheck(t)
    \/ \E t \in Threads : FlushGet(t)
    \/ \E t \in Threads : FlushHandle(t)
    \/ \E t \in TimerIds : Fire(t)
    \/ Tick

\* any calls of the producer
Next ==
    \/ nCalls < MaxCalls /\ Start
    \/ nCalls < MaxCalls /\ Len(levelno) < MaxRecords
                         /\ \E lv \in Levels : EmitCall(lv)
    \/ nCalls < MaxCalls /\ StopCall
    \/ nCalls < MaxCalls /\ FlushCall
    \/ Step

Spec == Init /\ [][Next]_vars

\* the calls of _integration_test up to its first sleep: start() and emits of
\* INFO records
NextBurst ==
    \/ nCalls < BurstCalls /\ Start
    \/ nCalls < BurstCalls /\ Len(levelno) < MaxRecords /\ EmitCall(INFO)
    \/ Step

SpecBurst == Init /\ [][NextBurst]_vars

\* any calls of the producer, with a target whose handle may raise
NextFail ==
    \/ Next
    \/ \E t \in Threads : FlushHandleFail(t)

SpecFail == Init /\ [][NextFail]_vars

\* Spec with threads that run: a step that a thread inside a call or a
\* Timer thread can take, or a tick of the time, is taken in the end. The
\* producer is free to make no further call, so that no delivery rests on a
\* stop or a flush call to come.
SpecLive == Init /\ [][Next]_vars /\ WF_vars(Step)

\* ---- EventLogger with the clock of MockIO ----

\* MockIO.clock: self._now += timedelta(seconds=self._delta);
\* self._delta += 1; return self._now
Clock == io_now + io_delta

Ticked ==
    /\ io_now' = Clock
    /\ io_delta' = io_delta + 1

Pop(st) == SubSeq(st, 1, Len(st) - 1)

Last(st) == st[Len(st)]

\* faulty variant: a breadcrumb of depths in the place of sequence numbers
IxsByDepth(st) == [i \in 1..Len(st) |-> i]

\* [ix for (ix, _t) in self._step]
Ixs(st) == [i \in 1..Len(st) |-> st[i].ix]

NSteps == Cardinality({i \in 1..Len(ops) : ops[i] = "step"})

NQueries == Cardinality({i \in 1..Len(ops) : ops[i] \in {"elapsed", "eta"}})

\* faulty variant: steps numbered by their depth
NextSeqByDepth == Len(self_step) + 1

\* step: self._seq += 1
NextSeq == self_seq + 1

\* with self.step(...): from the call of the clock to the begin record.
\* self.info comes before the try statement: when it raises (emitted is
\* FALSE: a handler of the logger raises, as DebounceHandler.emit does with
\* queue.Empty) the exception leaves step at once and the with statement
\* never runs its body.
StepCall(emitted) ==
    LET checkpoint == Clock
        frames == Append(self_step, [ix |-> NextSeq, t |-> checkpoint])
        step_ixs == Ixs(frames)
        t_step == checkpoint - frames[1].t
    IN /\ exc = "none"
       /\ Ticked
       /\ self_seq' = NextSeq
       /\ self_step' = frames
       /\ assigned' = Append(assigned, NextSeq)
       /\ ops' = Append(ops, "step")
       /\ IF emitted
          THEN /\ log' = Append(log, [do |-> "begin", levelno |-> INFO,
                                      step |-> step_ixs, t_step |-> t_step,
                                      elapsed |-> <<checkpoint>>])
               /\ scopes' = Append(scopes, [ix |-> NextSeq,
                                            checkpoint |-> checkpoint,
                                            step_ixs |-> step_ixs,
                                            before |-> self_step])
               /\ UNCHANGED <<exc, exits>>
          ELSE /\ exc' = "LogError"
               /\ exits' = [ix |-> NextSeq, before |-> self_step,
                            after |-> frames, entered |-> FALSE,
                            raised |-> "none", out |-> "LogError",
                            checkpoint |-> checkpoint, now |-> checkpoint]
               /\ UNCHANGED <<log, scopes>>
       /\ UNCHANGED <<dvars, fvars, ret>>

\* the body of the innermost scope raises
BodyRaise ==
    /\ exc = "none"
    /\ scopes # <<>>
    /\ exc' = "AppError"
    /\ UNCHANGED <<dvars, fvars, self_seq, self_step, io_now, io_delta,
                   scopes, log, ret, exits, assigned, ops>>

\* a try statement around the point the exception has reached catches it
Catch ==
    /\ exc # "none"
    /\ exc' = "none"
    /\ UNCHANGED <<dvars, fvars, self_seq, self_step, io_now, io_delta,
                   scopes, log, ret, exits, assigned, ops>>

\* the innermost scope is left, its body over or an exception in flight:
\* except: outcome = logging.ERROR; raise; finally: self.elapsed(then=
\* checkpoint), self.log(outcome, ...), self._step.pop(). When self.log
\* raises (emitted is FALSE) its exception takes the place of the one in
\* flight and the pop is not reached.
StepExit(emitted) ==
    LET s == Last(scopes)
        outcome == IF exc = "none" THEN INFO ELSE ERROR
        el == Clock - s.checkpoint
        rec == [do |-> "end", levelno |-> outcome, step |-> s.step_ixs,
                t_step |-> el,
                elapsed |-> <<s.checkpoint, el, el * 1000000>>]
    IN /\ scopes # <<>>
       /\ Ticked
       /\ scopes' = Pop(scopes)
       /\ ops' = Append(ops, "exit")
       /\ IF emitted
          THEN /\ log' = Append(log, rec)
               /\ self_step' = Pop(self_step)
               /\ exc' = exc
          ELSE /\ log' = log
               /\ self_step' = self_step
               /\ exc' = "LogError"
       /\ exits' = [ix |-> s.ix, before |-> s.before, after |-> self_step',
                    entered |-> TRUE, raised |-> exc, out |-> exc',
                    checkpoint |-> s.checkpoint, now |-> Clock]
       /\ UNCHANGED <<dvars, fvars, self_seq, ret, assigned>>

NoResult(op, pct, how) ==
    [op |-> op, pct |-> pct, outcome |-> how, start |-> 0, elapsed |-> 0,
     value |-> 0]

\* elapsed(): start = then or self._step[-1][1];
\* elapsed = self._clock() - start
ElapsedCall ==
    /\ exc = "none"
    /\ ops' = Append(ops, "elapsed")
    /\ IF self_step = <<>>
       THEN /\ exc' = "IndexError"
            /\ ret' = NoResult("elapsed", 0, "IndexError")
            /\ UNCHANGED <<io_now, io_delta>>
       ELSE /\ Ticked
            /\ exc' = exc
            /\ ret' = [op |-> "elapsed", pct |-> 0, outcome |-> "returned",
                       start |-> Last(self_step).t,
                       elapsed |-> Clock - Last(self_step).t,
                       value |-> (Clock - Last(self_step).t) * 1000000]
    /\ UNCHANGED <<dvars, fvars, self_seq, self_step, scopes, log, exits,
                   assigned>>

\* the percentages for which 1 / (pct / 100) is exact in floating point, and 0
Pcts == {0, 25, 50, 100}

\* faulty variant: the start of the innermost frame
EtaT0Innermost == Last(self_step).t

\* eta: t0 = self._step[0][1]
EtaT0 == self_step[1].t

\* faulty variant: an eta that answers t0 for pct = 0
EtaCallGuarded(pct) ==
    /\ exc = "none"
    /\ ops' = Append(ops, "eta")
    /\ IF self_step = <<>>
       THEN /\ exc' = "IndexError"
            /\ ret' = NoResult("eta", pct, "IndexError")
            /\ UNCHANGED <<io_now, io_delta>>
       ELSE /\ Ticked
            /\ exc' = exc
            /\ ret' = [op |-> "eta", pct |-> pct, outcome |-> "returned",
                       start |-> EtaT0, elapsed |-> Clock - EtaT0,
                       value |-> IF pct = 0 THEN EtaT0
                                 ELSE EtaT0 + (Clock - EtaT0) * (100 \div pct)]
    /\ UNCHANGED <<dvars, fvars, self_seq, self_step, scopes, log, exits,
                   assigned>>

\* eta(pct): t0 = self._step[0][1]; elapsed = self._clock() - t0;
\* return t0 + elapsed * (1 / (pct / 100)). pct / 100 is 0.0 for pct = 0 and
\* 1 / 0.0 raises ZeroDivisionError, after the call of the clock.
EtaCall(pct) ==
    /\ exc = "none"
    /\ ops' = Append(ops, "eta")
    /\ IF self_step = <<>>
       THEN /\ exc' = "IndexError"
            /\ ret' = NoResult("eta", pct, "IndexError")
            /\ UNCHANGED <<io_now, io_delta>>
       ELSE /\ Ticked
            /\ IF pct = 0
               THEN /\ exc' = "ZeroDivisionError"
                    /\ ret' = NoResult("eta", pct, "ZeroDivisionError")
               ELSE /\ exc' = exc
                    /\ ret' = [op |-> "eta", pct |-> pct,
                               outcome |-> "returned",
                               start |-> EtaT0, elapsed |-> Clock - EtaT0,
                               value |-> EtaT0 +
                                         (Clock - EtaT0) * (100 \div pct)]
    /\ UNCHANGED <<dvars, fvars, self_seq, self_step, scopes, log, exits,
                   assigned>>

\* a logger whose handlers return
NextLog ==
    \/ NSteps < MaxSteps /\ StepCall(TRUE)
    \/ BodyRaise
    \/ Catch
    \/ StepExit(TRUE)
    \/ NQueries < MaxQueries /\ ElapsedCall
    \/ NQueries < MaxQueries /\ \E pct \in Pcts : EtaCall(pct)

\* the DebounceHandler and the TextHandler take no part
InitLog == Init /\ capacity = 1

SpecLog == InitLog /\ [][NextLog]_vars

\* a logger with a handler that may raise
NextLogFail ==
    \/ NextLog
    \/ NSteps < MaxSteps /\ StepCall(FALSE)
    \/ StepExit(FALSE)

SpecLogFail == InitLog /\ [][NextLogFail]_vars

\* ---- properties ----

Max(a, b) == IF a >= b THEN a ELSE b

Handled == Range(handled)

InHand == {thr[t].hand : t \in Threads} \ {0}

\* the threads between a buffer check of flush that found a record and the
\* return of the target.handle call for it
Flushing == {t \in Threads : thr[t].pc \in {"fl_get", "fl_handle"}}

PendingTimers == {t \in TimerIds : thr[t].pc = "pending"}

Returned(op) ==
    /\ thr[Producer].pc = "idle"
    /\ call.op = op
    /\ call.outcome = "returned"

\* the buffer is within its capacity and in the order of acceptance; what
\* emit has evicted is older than every record still buffered; there is at
\* most one eviction for every emit beyond the first capacity ones
BoundedFifo ==
    /\ Len(buffer) <= capacity
    /\ \A e \in evicted : \A i \in 1..Len(buffer) : e < buffer[i]
    /\ \A i, j \in 1..Len(buffer) : i < j => buffer[i] < buffer[j]
    /\ Cardinality(evicted) <= Max(0, Len(levelno) - capacity)

\* C1: the buffer never holds more than capacity records, whatever the
\* interleaving of emit, start, stop, flush and Timer flushes; an emit that
\* removes from a full buffer removes exactly its head, the oldest record,
\* and goes on to append its own record; only an emit on a full buffer
\* evicts.
C1_BufferBound ==
    /\ []BoundedFifo
    /\ [][(/\ thr[Producer].pc = "emit_evict"
            /\ Len(buffer) = capacity
            /\ thr'[Producer] # thr[Producer])
           => (/\ buffer' = Tail(buffer)
               /\ evicted' = evicted \cup {Head(buffer)}
               /\ thr'[Producer].pc = "emit_put")]_vars

\* an emit has evicted the head of a full buffer of several records and
\* appended its record
C1_Witness ==
    /\ Returned("emit")
    /\ evicted # {}
    /\ capacity > 1
    /\ Len(buffer) = capacity
    /\ buffer[Len(buffer)] = call.rec

\* C2: the target.handle calls come in the order in which the records were
\* accepted into the buffer (record ids grow in that order).
C2_FifoDelivery ==
    \A i, j \in 1..Len(handled) : i < j => handled[i] < handled[j]

\* C3: at most one thread is inside flush, between a buffer check and the
\* target.handle call that follows it.
C3_FlushMutex == Cardinality(Flushing) <= 1

\* C4: an emit call never ends with an exception: when it is over it has
\* returned and its record has been accepted into the buffer.
C4_EmitSafe ==
    (thr[Producer].pc = "idle" /\ call.op = "emit") =>
        (call.outcome = "returned" /\ call.rec \in Range(accepted))

\* C5: after a burst of more than capacity records below flushLevel, less
\* than interval apart and with no flush running during it, once the interval
\* has passed and every Timer is over, exactly one flush has forwarded
\* records, and what was forwarded is the last capacity records in the order
\* of their submission.
C5_Coalescing ==
    (/\ hist.burst # "broken"
     /\ thr[Producer].pc = "idle"
     /\ Len(levelno) > capacity
     /\ sinceEmit >= interval
     /\ \A t \in TimerIds : thr[t].pc \in {"unborn", "cancelled", "done"})
    => (/\ Cardinality(hist.forwarders) = 1
        /\ handled = SubSeq(accepted, Len(accepted) - capacity + 1,
                            Len(accepted)))

\* C6: when an emit of a record at or above flushLevel has returned, every
\* record that was in the buffer with it has been handed to the target, the
\* buffer is empty and no Timer of the handler is pending.
C6_ImmediateFlush ==
    (Returned("emit") /\ levelno[call.rec] >= flushLevel) =>
        (/\ Range(call.snap) \subseteq Handled
         /\ buffer = <<>>
         /\ self_timer # 0 => thr[self_timer].pc # "pending")

\* C7: when stop has returned the buffer is empty, and every record accepted
\* before has been evicted by overflow, handed to the target, or is held by a
\* flush in progress.
C7_StopLosesNothing ==
    Returned("stop") =>
        (/\ buffer = <<>>
         /\ Range(accepted) \subseteq (evicted \cup Handled \cup InHand))

\* stop has returned after records were accepted, with a record forwarded
C7_Witness ==
    /\ Returned("stop")
    /\ Len(accepted) >= 2
    /\ handled # <<>>

\* C8: a stop called right after a stop that returned does not raise, hands
\* no record to the target and leaves the buffer, self._timer and every Timer
\* as they were; and a flush that finds the buffer empty returns at once and
\* changes nothing.
C8_IdempotentStop ==
    [][/\ (call'.op = "stop" /\ call'.again /\ thr'[Producer] # thr[Producer])
          => (/\ buffer' = buffer
              /\ handled' = handled
              /\ self_timer' = self_timer
              /\ \A t \in TimerIds : thr'[t] = thr[t]
              /\ call'.outcome \in {"running", "returned"})
       /\ \A t \in Threads :
            (thr[t].pc = "fl_check" /\ buffer = <<>> /\ thr'[t] # thr[t])
            => (/\ thr'[t].pc \in {"idle", "done"}
                /\ buffer' = buffer
                /\ handled' = handled
                /\ \A u \in Threads \ {t} : thr'[u] = thr[u])]_vars

\* the second of two stops in a row has returned, after records were accepted
C8_Witness ==
    /\ Returned("stop")
    /\ call.again
    /\ accepted # <<>>

\* C9: once stop has been called, no step of an emit creates a Timer.
C9_NoTimersAfterStop ==
    [][(hist.stopCalled /\ call'.op = "emit") => nTimers' = nTimers]_vars

\* C10: at most one Timer of the handler is started, not fired and not
\* cancelled.
C10_SinglePendingTimer == Cardinality(PendingTimers) <= 1

\* C11: a flush running on a Timer thread hands a record to the target only
\* when at least interval has passed since the most recent emit call.
C11_QuietInterval ==
    [][\A t \in TimerIds :
         (thr[t].pc = "fl_handle" /\ thr'[t].pc # "fl_handle")
         => sinceEmit >= interval]_vars

Failed == hist.failed

\* a step in which target.handle raises on a Timer thread changes nothing
\* the producer can see: not its position, its call, the buffer or
\* self._timer
TimerFailureIsolated ==
    [][\A t \in TimerIds :
         (thr[t].pc = "fl_handle" /\ thr'[t].pc = "died")
         => (/\ thr'[Producer] = thr[Producer]
             /\ call' = call
             /\ buffer' = buffer
             /\ self_timer' = self_timer)]_vars

\* an emit called after a Timer thread has ended with an exception of
\* target.handle returns, with its record accepted, unless target.handle
\* raises on the producer thread itself
LaterEmitSucceeds ==
    (thr[Producer].pc = "idle" /\ call.op = "emit" /\ call.late)
    => \/ call.outcome = "returned" /\ call.rec \in Range(accepted)
       \/ call.outcome = "HandleError"

\* a flush of the producer (stop, flush, or an emit at or above flushLevel)
\* that returns after such a failure leaves the buffer empty, and every
\* record accepted has been evicted, handed to target.handle, or is held by
\* a flush in progress
LaterFlushForwards ==
    (/\ thr[Producer].pc = "idle"
     /\ call.late
     /\ call.outcome = "returned"
     /\ \/ call.op \in {"stop", "flush"}
        \/ call.op = "emit" /\ levelno[call.rec] >= flushLevel)
    => (/\ buffer = <<>>
        /\ Range(accepted) \subseteq
               (evicted \cup Handled \cup Failed \cup InHand))

\* C12: when target.handle raises in a flush on a Timer thread, the
\* producer thread sees nothing of it, every emit called afterwards returns
\* with its record accepted, and a later flush hands on what was in the
\* buffer at the failure and what was accepted after it.
C12_TimerErrorIsolation ==
    /\ TimerFailureIsolated
    /\ []LaterEmitSucceeds
    /\ []LaterFlushForwards

\* ---- TextFilter, TextHandler and the way to the DebounceHandler ----

Chars == {"a", "b"}

\* the strings of at most n characters
Strs(n) == UNION {[1..k -> Chars] : k \in 0..n}

\* the lists of at most n skip strings
SkipLists(n) == UNION {[1..k -> Strs(MaxLen)] : k \in 0..n}

\* str.startswith
startswith(m, prefix) ==
    /\ Len(prefix) <= Len(m)
    /\ \A i \in 1..Len(prefix) : m[i] = prefix[i]

\* TextFilter.filter: for skip in self.skips: if record.getMessage()
\* .startswith(skip): return False; return True
RECURSIVE filter(_, _)
filter(sk, m) ==
    IF sk = <<>> THEN TRUE
    ELSE IF startswith(m, Head(sk)) THEN FALSE
    ELSE filter(Tail(sk), m)

\* wiring "sibling": log1.addHandler(TextHandler(stream, skips)) and
\* log1.addHandler(DebounceHandler()), whose target is the StreamHandler of
\* DebounceHandler.__init__; wiring "target":
\* log1.addHandler(DebounceHandler(target=TextHandler(stream, skips))).
FilterStart ==
    /\ skips \in SkipLists(MaxLen)
    /\ wiring \in {"sibling", "target"}
    /\ stream = <<>>
    /\ target_out = <<>>
    /\ queued = <<>>
    /\ last = [msg |-> <<>>, levelno |-> 0, rv |-> TRUE]

\* logging.Handler.handle of the TextHandler: rv = self.filter(record), with
\* the TextFilter that TextHandler.__init__ added; if rv: self.emit(record)
TextHandle(m) == IF filter(skips, m) THEN Append(stream, m) ELSE stream

\* log1.log(lv, m): every handler of the logger handles the record. The
\* DebounceHandler has no filter (its __init__ adds none), so its emit takes
\* every record.
LogRecord(m, lv) ==
    /\ Len(stream) + Len(queued) + Len(target_out) < MaxLen
    /\ last' = [msg |-> m, levelno |-> lv, rv |-> filter(skips, m)]
    /\ stream' = IF wiring = "sibling" THEN TextHandle(m) ELSE stream
    /\ queued' = Append(queued, m)
    /\ UNCHANGED <<dvars, lvars, skips, target_out, wiring>>

\* a flush of the DebounceHandler hands its oldest record to target.handle:
\* a StreamHandler writes it, a TextHandler filters it first
TargetHandle ==
    /\ queued # <<>>
    /\ queued' = Tail(queued)
    /\ IF wiring = "target"
       THEN /\ stream' = TextHandle(Head(queued))
            /\ UNCHANGED target_out
       ELSE /\ target_out' = Append(target_out, Head(queued))
            /\ UNCHANGED stream
    /\ UNCHANGED <<dvars, lvars, skips, wiring, last>>

NextFilter ==
    \/ \E m \in Strs(MaxLen), lv \in {INFO, WARN, ERROR} : LogRecord(m, lv)
    \/ TargetHandle

\* the EventLogger takes no part; the DebounceHandler is here what takes a
\* record in emit and hands it to its target in flush
InitFilter == DebounceInit /\ capacity = 1 /\ LoggerInit /\ FilterStart

SpecFilter == InitFilter /\ [][NextFilter]_vars

\* ---- properties of the EventLogger ----

\* C13: the sequence numbers given to steps at entry grow strictly in the
\* order of entry, so none is given twice, whatever steps were nested, left
\* or failed before.
C13_MonotonicSeq ==
    \A i, j \in 1..Len(assigned) : i < j => assigned[i] < assigned[j]

\* a step has been entered after a scope whose body raised was left and its
\* frame popped
C13_Witness ==
    /\ Len(assigned) >= 3
    /\ ops[Len(ops)] = "step"
    /\ exits.raised = "AppError"
    /\ Len(self_step) < Len(assigned)

\* the completion records emitted for the step with sequence number ix
Ends(ix) == SelectSeq(log, LAMBDA r : r.do = "end" /\ Last(r.step) = ix)

\* C14: when a scope whose body was run has been left, exactly one
\* completion record has been emitted for its step, at ERROR when the body
\* raised and at INFO when it did not, with the elapsed triple counted from
\* the start of the frame; and the exception that leaves the scope is the
\* one the body raised (none when it raised none).
C14_StepFailure ==
    exits.entered =>
        (/\ Len(Ends(exits.ix)) = 1
         /\ Ends(exits.ix)[1].levelno =
                IF exits.raised = "none" THEN INFO ELSE ERROR
         /\ Ends(exits.ix)[1].elapsed =
                <<exits.checkpoint, exits.now - exits.checkpoint,
                  (exits.now - exits.checkpoint) * 1000000>>
         /\ exits.out = exits.raised)

\* a scope has been left
Exited == exits.ix # 0

\* C15: when a step scope has been left, on whatever path, self._step is
\* what it was when step was called.
C15_StackDiscipline == Exited => exits.after = exits.before

\* the calls of the module doctest up to eta(pct=25), every record emitted
\* and no body raising
DoctestOps == <<"step", "step", "exit", "step", "exit", "elapsed", "eta">>

InDoctest ==
    /\ ops = DoctestOps
    /\ Len(log) = 5
    /\ \A i \in 1..Len(log) : log[i].levelno = INFO
    /\ ret.op = "eta"
    /\ ret.pct = 25

\* C16, as stated: in the doctest scenario 9 seconds have passed since the
\* start of the outer frame (12:30:01) when eta(25) is called, and eta
\* returns 12:31:49, which is the outer start + elapsed * 4.
C16_EtaScenario ==
    InDoctest =>
        (/\ ret.outcome = "returned"
         /\ ret.start = HMS(12, 30, 1)
         /\ ret.elapsed = 9
         /\ ret.value = HMS(12, 31, 49)
         /\ ret.value = ret.start + ret.elapsed * 4)

\* C16, amended: in the doctest scenario 27 seconds have passed since the
\* start of the outer frame (12:30:01) when eta(25) is called, and eta
\* returns 12:31:49, which is the outer start + elapsed * 4; and whenever
\* eta has returned, the start it used is that of the outermost frame on the
\* stack and the elapsed time is the clock's time at the call less that start.
C16_EtaScenarioAmended ==
    /\ InDoctest =>
        (/\ ret.outcome = "returned"
         /\ ret.start = HMS(12, 30, 1)
         /\ ret.elapsed = 27
         /\ ret.value = HMS(12, 31, 49)
         /\ ret.value = ret.start + ret.elapsed * 4)
    /\ (ops # <<>> /\ ops[Len(ops)] = "eta" /\ ret.outcome = "returned") =>
        (/\ ret.start = self_step[1].t
         /\ ret.elapsed = io_now - ret.start
         /\ ret.value = ret.start + ret.elapsed * (100 \div ret.pct))

\* eta(25) has returned at the end of the doctest scenario
C16_Witness == InDoctest /\ ret.outcome = "returned" /\ Len(self_step) = 1

\* C17: a call of eta with pct = 0 while a step is active raises (it returns
\* no time) and leaves self._step and self._seq as they were.
C17_EtaZeroFails ==
    [][(ops' = Append(ops, "eta") /\ ret'.pct = 0 /\ self_step # <<>>)
       => (/\ ret'.outcome = "ZeroDivisionError"
           /\ exc' = "ZeroDivisionError"
           /\ self_step' = self_step
           /\ self_seq' = self_seq)]_vars

\* eta(0) has been called inside a nested step
C17_Witness ==
    /\ ops # <<>>
    /\ ops[Len(ops)] = "eta"
    /\ ret.pct = 0
    /\ ret.outcome = "ZeroDivisionError"
    /\ Len(self_step) >= 2

\* the begin records emitted for the step with sequence number ix
Begins(ix) == SelectSeq(log, LAMBDA r : r.do = "begin" /\ Last(r.step) = ix)

\* the sequence numbers of the scopes that are open, outermost first
Active == [i \in 1..Len(scopes) |-> scopes[i].ix]

\* the whole with block of the module doctest, every record emitted at INFO
DoctestRun == Append(DoctestOps, "exit")

DoctestDone ==
    /\ ops = DoctestRun
    /\ Len(log) = 6
    /\ \A i \in 1..Len(log) : log[i].levelno = INFO

\* C21: a step entry reads the clock once and emits one begin record, at
\* INFO, with elapsed = (entry time) alone and the breadcrumb of the open
\* scopes, outermost first, followed by the new step; a step exit reads the
\* clock once and emits one end record with the breadcrumb of the step's
\* begin record, the start of that record, and as duration the clock's
\* reading at exit less that start; and the run of the doctest gives the
\* breadcrumbs [1], [1,2], [1,2], [1,3], [1,3], [1] and the durations 3 s,
\* 5 s and 35 s.
C21_BeginEndRecords ==
    /\ [][/\ ops' = Append(ops, "step")
             => (/\ io_delta' = io_delta + 1
                 /\ Len(log') = Len(log) + 1
                 /\ SubSeq(log', 1, Len(log)) = log
                 /\ Last(log').do = "begin"
                 /\ Last(log').levelno = INFO
                 /\ Last(log').elapsed = <<io_now'>>
                 /\ Last(log').step = Append(Active, self_seq'))
          /\ ops' = Append(ops, "exit")
             => (/\ io_delta' = io_delta + 1
                 /\ Len(log') = Len(log) + 1
                 /\ SubSeq(log', 1, Len(log)) = log
                 /\ Last(log').do = "end"
                 /\ Len(Begins(Last(scopes).ix)) = 1
                 /\ Last(log').step = Begins(Last(scopes).ix)[1].step
                 /\ Last(log').elapsed[1] =
                        Begins(Last(scopes).ix)[1].elapsed[1]
                 /\ Last(log').elapsed[2] =
                        io_now' - Begins(Last(scopes).ix)[1].elapsed[1])]_vars
    /\ [](DoctestDone =>
          (/\ [i \in 1..6 |-> log[i].step] =
                 <<(<<1>>), <<1, 2>>, <<1, 2>>, <<1, 3>>, <<1, 3>>, (<<1>>)>>
           /\ log[3].elapsed[2] = 3
           /\ log[5].elapsed[2] = 5
           /\ log[6].elapsed[2] = 35))

\* the with block of the doctest has been left
C21_Witness == DoctestDone /\ scopes = <<>> /\ self_step = <<>>

\* ---- properties of TextFilter ----

\* some skip string is the beginning of m
Skipped(m) ==
    \E i \in 1..Len(skips) :
        /\ Len(skips[i]) <= Len(m)
        /\ SubSeq(m, 1, Len(skips[i])) = skips[i]

\* filter returns False exactly for the messages that begin with a skip
\* string, at every severity
FilterExact == last.levelno # 0 => last.rv = ~Skipped(last.msg)

\* the TextHandler writes no message that begins with a skip string
StreamClean == \A i \in 1..Len(stream) : ~Skipped(stream[i])

\* C18: filter returns False exactly when the message begins with one of
\* the skip strings, at every severity; and no record whose message begins
\* with a skip string is written by a sink downstream, be it the stream of
\* the TextHandler or the target of the DebounceHandler.
C18_FilterSuppression ==
    /\ FilterExact
    /\ StreamClean
    /\ \A i \in 1..Len(target_out) : ~Skipped(target_out[i])

\* ---- termination and delivery of the DebounceHandler ----

\* C19: the producer is never left waiting in the buffer.get() of a flush:
\* when it is at that call the buffer holds a record. (Only the producer
\* puts records, so if it waits there on an empty buffer it waits for ever
\* and its emit, stop or flush never returns.)
C19_FlushTerminates == thr[Producer].pc = "fl_get" => buffer # <<>>
\* while the producer is in no call, a non-empty buffer has a Timer pending
\* or a thread in flush
NoOrphan ==
    (thr[Producer].pc = "idle" /\ buffer # <<>>)
    => (PendingTimers # {} \/ \E t \in Threads : thr[t].pc \in FlushPcs)

\* C20: every record accepted into the buffer is in the end evicted by an
\* emit on a full buffer or handed to the target, with or without a stop,
\* given that Timers fire, threads run and target.handle returns; and a
\* record is never in the buffer with no Timer pending and no flush under
\* way once the producer's call is over.
C20_EventualDelivery ==
    /\ []NoOrphan
    /\ \A r \in 1..MaxRecords :
         [](r \in Range(accepted) => <>(r \in evicted \cup Handled))

\* records below flushLevel, emitted less than interval apart, have all been
\* forwarded by the flush of a Timer; no stop, flush or high-severity emit
\* was called
C20_Witness ==
    /\ hist.burst = "fired"
    /\ hist.forwarders # {}
    /\ Len(accepted) >= 2
    /\ Range(accepted) \subseteq evicted \cup Handled

\* ---- the put of emit and the delivery of a record, once ----

\* C22: when the producer is about to execute self.buffer.put(record) in
\* emit, whatever the Timer threads' flushes have done in between, the
\* buffer holds fewer than capacity records, so the put does not wait.
C22_PutNeverBlocks ==
    thr[Producer].pc = "emit_put" =>
        /\ Len(buffer) < capacity
        /\ ~QFull(buffer)
        /\ ENABLED EmitPut

\* the producer is at the put after an eviction, while a Timer thread is
\* in flush
C22_Witness ==
    /\ thr[Producer].pc = "emit_put"
    /\ call.op = "emit"
    /\ evicted # {}
    /\ \E t \in TimerIds : thr[t].pc \in {"fl_check", "fl_get", "fl_handle"}

\* no record occurs twice in the sequence s
NoRepeat(s) == \A i, j \in 1..Len(s) : s[i] = s[j] => i = j

\* the records a thread holds between get and target.handle, one entry for
\* each thread that holds one
Hands == SelectSeq([t \in 1..MaxTimers + 1 |->
                      IF t <= MaxTimers THEN thr[t].hand
                      ELSE thr[Producer].hand],
                   LAMBDA r : r # 0)

\* C23: a record accepted by emit is handed to target.handle at most once,
\* whichever threads flush and however their steps interleave: no record
\* is handled twice, none is held by two threads or held again after it
\* has been handled, or is still in the buffer once a thread has taken it;
\* and a record evicted by an emit on a full buffer is never handed over.
C23_NoDuplicateDelivery ==
    /\ NoRepeat(handled \o Hands \o buffer)
    /\ Range(handled \o Hands \o buffer) \subseteq Range(accepted)
    /\ evicted \cap Range(handled \o Hands \o buffer) = {}

\* a record has been evicted and another handed over, and the producer and
\* a Timer thread are both in flush, one of them holding a record
C23_Witness ==
    /\ evicted # {}
    /\ handled # <<>>
    /\ Hands # <<>>
    /\ thr[Producer].pc \in {"fl_check", "fl_get", "fl_handle"}
    /\ \E t \in TimerIds : thr[t].pc \in {"fl_check", "fl_get", "fl_handle"}

====
